---- MODULE Spec2Model ----
(***************************************************************************)
(* Model of Setup.py, the installation script of KPU Data Extractor.       *)
(*                                                                         *)
(* The state is the filesystem under the base directory (the directory     *)
(* containing Setup.py), the console output, the position of the run and   *)
(* the process exit status.  Every method of ProjectSetup is an operator   *)
(* from a filesystem to a result record [fs, out, exc]; exc is the name of *)
(* the Python exception that leaves the method ("none" when it returns).   *)
(***************************************************************************)
EXTENDS Integers, Sequences, FiniteSets, TLC

VARIABLES
    fs,          \* path -> entry, the tree under base_dir
    fs0,         \* the tree as it was when the process started
    version,     \* sys.version_info as <<major, minor, micro>>
    pc,          \* the stage the run is about to execute, or "done"
    exitCode,    \* process exit status once pc = "done"
    out,         \* lines printed so far
    started,     \* stages entered, in order
    finished,    \* stages that returned normally, in order
    exc,         \* exception that ended the run, "none" if none
    cwd,         \* working directory of the process: "base" or "elsewhere"
    cwdReq,      \* the entry requirements.txt of the working directory when cwd = "elsewhere"
    pip,         \* what the installer subprocess was handed, and how it ended
    edits,       \* number of files the developer has written
    calls,       \* executions of the scaffolding stage by a client; earlier runs of the installer
    last,        \* the last step taken: "init", "stage", "user", "cleanup"
    pre          \* the tree before the last step

vars == <<fs, fs0, version, pc, exitCode, out, started, finished, exc, cwd, cwdReq, pip, edits, calls, last, pre>>

-----------------------------------------------------------------------------
(* Bounds *)

MaxSeed == 1          \* entries present under base_dir before the process starts
MaxEdits == 1         \* user writes between executions of the scaffolding stage
MaxCalls == 2         \* executions of the scaffolding stage by one client

-----------------------------------------------------------------------------
(* ProjectSetup.__init__ *)

project_version == "5.0.0"
author == "System Admin"

requirements ==
    << "requests>=2.31.0", "colorama>=0.4.6", "tqdm>=4.66.1", "pandas>=2.0.3",
       "openpyxl>=3.1.2", "python-dotenv>=1.0.0", "PyInquirer>=1.0.3", "tabulate>=0.9.0" >>

\* Names bound at module level by the import block: os, sys, subprocess,
\* platform, Path.  json is not among them.
ModuleImports == {"os", "sys", "subprocess", "platform", "Path"}

-----------------------------------------------------------------------------
(* Filesystem entries *)

Absent == [kind |-> "absent", text |-> <<>>]
Dir == [kind |-> "dir", text |-> <<>>]
File(t) == [kind |-> "file", text |-> t]

EmptyText == <<>>
UserText == << "user text" >>
UserText2 == << "other user text" >>

\* create_project_structure: directories
directories ==
    << "src", "src/core", "src/api", "src/database", "src/utils", "src/export",
       "src/reports", "data", "data/raw", "data/processed", "data/exports",
       "logs", "config", "docs", "tests", "bin", "tmp" >>

\* create_project_structure: files
files ==
    << "src/__init__.py", "src/core/__init__.py", "src/api/__init__.py",
       "src/database/__init__.py", "src/utils/__init__.py", "src/export/__init__.py",
       "src/reports/__init__.py", "config/settings.json", "config/api_config.json",
       ".env.example", "requirements.txt", "README.md", "CHANGELOG.md", "LICENSE",
       "run.py", "cleanup.py" >>

Range(s) == { s[i] : i \in 1..Len(s) }

DirPlan == Range(directories)
FilePlan == Range(files)

\* Paths the cleanup script names, and files of the developer that no plan names.
CleanupPaths == { "__pycache__", "__pycache__/setup.pyc", "tmp/scratch.dat",
                  "logs/old.log", "logs/keep.txt", ".DS_Store", "thumbs.db" }
OtherPaths == { "notes.txt", "config/local.json" }

Paths == DirPlan \cup FilePlan \cup {".gitignore"} \cup CleanupPaths \cup OtherPaths

Root == "."

\* Path.parent, as a table over Paths
ParentTable ==
    [ p \in Paths |->
        CASE p \in { "src/core", "src/api", "src/database", "src/utils", "src/export",
                     "src/reports", "src/__init__.py" } -> "src"
          [] p = "src/core/__init__.py" -> "src/core"
          [] p = "src/api/__init__.py" -> "src/api"
          [] p = "src/database/__init__.py" -> "src/database"
          [] p = "src/utils/__init__.py" -> "src/utils"
          [] p = "src/export/__init__.py" -> "src/export"
          [] p = "src/reports/__init__.py" -> "src/reports"
          [] p \in { "data/raw", "data/processed", "data/exports" } -> "data"
          [] p \in { "config/settings.json", "config/api_config.json", "config/local.json" } -> "config"
          [] p \in { "logs/old.log", "logs/keep.txt" } -> "logs"
          [] p = "tmp/scratch.dat" -> "tmp"
          [] p = "__pycache__/setup.pyc" -> "__pycache__"
          [] OTHER -> Root ]

Parent(p) == ParentTable[p]

RECURSIVE Above(_)
Above(p) == IF Parent(p) = Root THEN {} ELSE {Parent(p)} \cup Above(Parent(p))

AncestorTable == [ p \in Paths |-> Above(p) ]

\* the directories a path lies in, below the base directory
Ancestors(p) == AncestorTable[p]

Descendants(d) == { p \in Paths : d \in Ancestors(p) }

Children(d) == { p \in Paths : Parent(p) = d }

\* Path.exists()
Exists(f, p) == f[p].kind # "absent"

IsDir(f, p) == f[p].kind = "dir"

IsFile(f, p) == f[p].kind = "file"

EmptyTree == [ p \in Paths |-> Absent ]


-----------------------------------------------------------------------------
(* Trees the process can be started in: MaxSeed entries were created under *)
(* base_dir beforehand, each with the directories leading to it.           *)

SeedEntries == { Dir, File(EmptyText), File(UserText) }

CanSeed(f, p) == ~Exists(f, p) /\ \A a \in Ancestors(p) : ~IsFile(f, a)

Seed(f, p, e) == [ q \in Paths |-> IF q = p THEN e ELSE IF q \in Ancestors(p) THEN Dir ELSE f[q] ]

RECURSIVE SeedStates(_)
SeedStates(k) ==
    IF k = 0 THEN { EmptyTree }
    ELSE LET prev == SeedStates(k - 1)
         IN prev \cup { Seed(f, p, e) : <<f, p, e>> \in
                          { t \in prev \X Paths \X SeedEntries : CanSeed(t[1], t[2]) } }

-----------------------------------------------------------------------------
(* pathlib operations.  Each returns [fs, exc].                            *)

Ok(f) == [fs |-> f, exc |-> "none"]

Raise(f, e) == [fs |-> f, exc |-> e]

\* mkdir as "remove what is there, then create": an existing directory loses its entries
mkdir_fresh(f, p) ==
    IF \E a \in Ancestors(p) : IsFile(f, a) THEN Raise(f, "NotADirectoryError")
    ELSE IF IsFile(f, p) THEN Raise(f, "FileExistsError")
    ELSE LET made == {p} \cup Ancestors(p)
         IN Ok([ q \in Paths |-> IF q \in made THEN Dir ELSE IF p \in Ancestors(q) THEN Absent ELSE f[q] ])

\* Path.mkdir(parents=True, exist_ok=True)
mkdir(f, p) ==
    IF \E a \in Ancestors(p) : IsFile(f, a) THEN Raise(f, "NotADirectoryError")
    ELSE IF IsFile(f, p) THEN Raise(f, "FileExistsError")
    ELSE LET made == {p} \cup Ancestors(p)
         IN Ok([ q \in Paths |-> IF q \in made THEN Dir ELSE f[q] ])

\* Path.touch(): creates an empty file, leaves an existing entry as it is
touch(f, p) ==
    IF \E a \in Ancestors(p) : IsFile(f, a) THEN Raise(f, "NotADirectoryError")
    ELSE IF \E a \in Ancestors(p) : ~Exists(f, a) THEN Raise(f, "FileNotFoundError")
    ELSE IF Exists(f, p) THEN Ok(f)
    ELSE Ok([f EXCEPT ![p] = File(EmptyText)])

\* Path.write_text(t): creates or truncates the file and writes t
write_text(f, p, t) ==
    IF \E a \in Ancestors(p) : IsFile(f, a) THEN Raise(f, "NotADirectoryError")
    ELSE IF \E a \in Ancestors(p) : ~Exists(f, a) THEN Raise(f, "FileNotFoundError")
    ELSE IF IsDir(f, p) THEN Raise(f, "IsADirectoryError")
    ELSE Ok([f EXCEPT ![p] = File(t)])

\* shutil.rmtree(p): removes the directory and everything below it
rmtree(f, p) ==
    IF ~IsDir(f, p) THEN Raise(f, "NotADirectoryError")
    ELSE Ok([ q \in Paths |-> IF q = p \/ p \in Ancestors(q) THEN Absent ELSE f[q] ])

\* Path.unlink()
unlink(f, p) ==
    IF ~Exists(f, p) THEN Raise(f, "FileNotFoundError")
    ELSE IF IsDir(f, p) THEN Raise(f, "IsADirectoryError")
    ELSE Ok([f EXCEPT ![p] = Absent])

-----------------------------------------------------------------------------
(* Text.  A text is a sequence of tokens; "\n" is the line separator.      *)

RECURSIVE Join(_)
\* "\n".join(list)
Join(list) ==
    IF list = <<>> THEN <<>>
    ELSE IF Len(list) = 1 THEN << list[1] >>
    ELSE << list[1], "\n" >> \o Join(Tail(list))

RECURSIVE Lines(_)
\* the lines of a text, as the package installer reads a manifest
Lines(t) ==
    IF t = <<>> THEN <<>>
    ELSE IF t[1] = "\n" THEN Lines(Tail(t))
    ELSE << t[1] >> \o Lines(Tail(t))

gitignore_content == << "# Python", "\n", "__pycache__/", "\n", "# Project", "\n", "logs/*", "\n",
                        "tmp/*", "\n", "# Environment", "\n", ".env", "\n", "# IDE", "\n",
                        "# OS", "\n", ".DS_Store", "\n", "Thumbs.db", "\n" >>

\* json.dumps(settings, indent=2)
settings_json(v, a) ==
    << "{", "\n", "app.name", "KPU Data Extractor", "\n", "app.version", v, "\n", "app.author", a, "\n",
       "database.path", "data/kpu_database.db", "\n", "api.user_agent", "KPU-Data-Extractor/5.0", "\n",
       "export.default_format", "csv", "\n", "logging.level", "INFO", "\n", "}" >>

\* json.dumps(api_config, indent=2)
api_config_json ==
    << "{", "\n", "endpoints.dpt_check", "https://cekdptonline.kpu.go.id", "\n",
       "endpoints.pemilu_data", "https://sirekap-obj.kpu.go.id", "\n",
       "endpoints.wilayah", "https://wilayah-kpu.go.id", "\n",
       "endpoints.pilkada", "https://pilkada2024.kpu.go.id", "\n",
       "headers.Accept", "application/json, text/plain, */*", "\n", "}" >>

env_example == << "# Database Configuration", "\n", "DB_PATH=data/kpu_database.db", "\n",
                  "API_TIMEOUT=30", "\n", "EXPORT_FORMAT=csv", "\n", "LOG_LEVEL=INFO", "\n",
                  "APP_NAME=KPU Data Extractor", "\n", "APP_VERSION=5.0.0", "\n" >>

run_py(v) == << "#!/usr/bin/env python3", "\n", "KPU DATA EXTRACTOR - MAIN ENTRY POINT", "\n",
                "Version: ", v, "\n", "from src.app.main import main", "\n", "main()", "\n" >>

\* the text the cleanup template would have with its two fields filled in
cleanup_py(dir_name, file_name) ==
    << "#!/usr/bin/env python3", "\n", "Cleanup script for KPU Data Extractor", "\n",
       "def cleanup():", "\n", "Cleared: ", dir_name, "\n", "Removed: ", dir_name, "\n",
       "Removed: ", file_name, "\n", "cleanup()", "\n" >>

readme_content(v) == << "# KPU Data Extractor v", v, "\n", "## Features", "\n", "## Project Structure", "\n" >>


-----------------------------------------------------------------------------
(* The stages.  Each returns [fs, out, exc]: the tree it leaves, the lines *)
(* it printed and the exception that left it.                              *)

Result(f, o, e) == [fs |-> f, out |-> o, exc |-> e]

\* print_banner
print_banner == << <<"KPU DATA EXTRACTOR v", project_version>>, <<"Complete Installation Setup">> >>

RECURSIVE LexLess(_, _)
\* Python's tuple comparison a < b
LexLess(a, b) ==
    IF b = <<>> THEN FALSE
    ELSE IF a = <<>> THEN TRUE
    ELSE IF a[1] # b[1] THEN a[1] < b[1]
    ELSE LexLess(Tail(a), Tail(b))

MinVersion == << 3, 7 >>

\* the version test on the minor number alone
check_python_version_minor(v) ==
    IF v[2] < MinVersion[2]
    THEN [exit |-> TRUE, out |-> << <<"[1/6] Checking Python version...">>,
                                    <<"Python 3.7 or higher is required!">> >>]
    ELSE [exit |-> FALSE, out |-> << <<"[1/6] Checking Python version...">>,
                                     <<"Python detected">> >>]

\* check_python_version: exit is TRUE when sys.exit(1) was called
check_python_version(v) ==
    IF LexLess(v, MinVersion)
    THEN [exit |-> TRUE, out |-> << <<"[1/6] Checking Python version...">>,
                                    <<"Python 3.7 or higher is required!">> >>]
    ELSE [exit |-> FALSE, out |-> << <<"[1/6] Checking Python version...">>,
                                     <<"Python detected">> >>]

RECURSIVE create_directories(_, _, _)
\* for directory in directories: mkdir, print
create_directories(f, o, i) ==
    IF i > Len(directories) THEN Result(f, o, "none")
    ELSE LET r == mkdir(f, directories[i])
         IN IF r.exc # "none" THEN Result(r.fs, o, r.exc)
            ELSE create_directories(r.fs, Append(o, <<"Created dir:", directories[i]>>), i + 1)

\* the placeholder written without the exists() test
create_file_truncate(f, p) == write_text(f, p, EmptyText)

\* if not file_path.exists(): file_path.touch()
create_file(f, p) == IF ~Exists(f, p) THEN touch(f, p) ELSE Ok(f)

RECURSIVE create_files(_, _, _)
\* for file in files: create it when nothing exists at the path, print
create_files(f, o, i) ==
    IF i > Len(files) THEN Result(f, o, "none")
    ELSE LET r == create_file(f, files[i])
         IN IF r.exc # "none" THEN Result(r.fs, o, r.exc)
            ELSE create_files(r.fs,
                              IF Exists(f, files[i]) THEN o ELSE Append(o, <<"Created file:", files[i]>>),
                              i + 1)

\* gitignore_path.write_text(gitignore_content)
write_gitignore(f) == write_text(f, ".gitignore", gitignore_content)

create_project_structure(f) ==
    LET d == create_directories(f, << <<"[2/6] Creating project structure...">> >>, 1)
    IN IF d.exc # "none" THEN d
       ELSE LET c == create_files(d.fs, d.out, 1)
            IN IF c.exc # "none" THEN c
               ELSE LET g == write_gitignore(c.fs)
                    IN IF g.exc # "none" THEN Result(g.fs, c.out, g.exc)
                       ELSE Result(g.fs,
                                   c.out \o << <<"Created file:", ".gitignore">>,
                                               <<"Project structure created successfully!">> >>,
                                   "none")

\* a name used in a function body is looked up among the function's locals,
\* then the module's globals
Bound(name, locals) == name \in locals \cup ModuleImports

create_config_files(f) ==
    LET o0 == << <<"[3/6] Creating configuration files...">> >>
    IN IF ~Bound("json", {"self", "settings"}) THEN Result(f, o0, "NameError")
       ELSE LET s == write_text(f, "config/settings.json", settings_json(project_version, author))
                o1 == Append(o0, <<"Created file:", "config/settings.json">>)
            IN IF s.exc # "none" THEN Result(s.fs, o0, s.exc)
               ELSE LET a == write_text(s.fs, "config/api_config.json", api_config_json)
                        o2 == Append(o1, <<"Created file:", "config/api_config.json">>)
                    IN IF a.exc # "none" THEN Result(a.fs, o1, a.exc)
                       ELSE LET e == write_text(a.fs, ".env.example", env_example)
                            IN IF e.exc # "none" THEN Result(e.fs, o2, e.exc)
                               ELSE Result(e.fs,
                                           o2 \o << <<"Created file:", ".env.example">>,
                                                    <<"Configuration files created!">> >>,
                                           "none")

\* the argument after "-r" in the installer's command line
ManifestArg == "requirements.txt"

PipResults == { "ok", "nonzero", "oserror" }

\* install_dependencies; result is how subprocess.check_call ended:
\* "ok" (exit status 0), "nonzero" (CalledProcessError), "oserror" (the
\* interpreter could not be executed: an OSError)
install_dependencies(f, result) ==
    LET o0 == << <<"[4/6] Installing dependencies...">> >>
        w == write_text(f, "requirements.txt", Join(requirements))
    IN IF w.exc # "none" THEN Result(w.fs, o0, w.exc)
       ELSE IF result = "ok"
            THEN Result(w.fs, Append(o0, <<"Dependencies installed successfully!">>), "none")
       ELSE IF result = "nonzero"
            THEN Result(w.fs,
                        o0 \o << <<"Failed to install dependencies:", "CalledProcessError">>,
                                 <<"Please install manually: pip install -r requirements.txt">> >>,
                        "none")
       ELSE Result(w.fs, o0, "OSError")

\* replacement fields of the f-string that builds cleanup_py: {dir_path.name}
\* (twice) and {file_path.name}
CleanupTemplateNames == { "dir_path", "file_path" }

create_main_files(f) ==
    LET o0 == << <<"[5/6] Creating main application files...">> >>
        r == write_text(f, "run.py", run_py(project_version))
        o1 == Append(o0, <<"Created file:", "run.py">>)
    IN IF r.exc # "none" THEN Result(r.fs, o0, r.exc)
       ELSE IF \E n \in CleanupTemplateNames : ~Bound(n, {"self", "run_py", "run_path", "cleanup_py"})
            THEN Result(r.fs, o1, "NameError")
       ELSE LET c == write_text(r.fs, "cleanup.py", cleanup_py("dir_path.name", "file_path.name"))
            IN IF c.exc # "none" THEN Result(c.fs, o1, c.exc)
               ELSE Result(c.fs,
                           o1 \o << <<"Created file:", "cleanup.py">>, <<"Main files created!">> >>,
                           "none")

create_documentation(f) ==
    LET o0 == << <<"[6/6] Creating documentation...">> >>
        w == write_text(f, "README.md", readme_content(project_version))
    IN IF w.exc # "none" THEN Result(w.fs, o0, w.exc)
       ELSE Result(w.fs, Append(o0, <<"Created file:", "README.md">>), "none")


-----------------------------------------------------------------------------
(* cleanup.py, the script create_main_files generates: cleanup()           *)

temp_dirs == << "__pycache__", "tmp", "logs" >>

temp_files == << ".DS_Store", "thumbs.db" >>

\* names that match the pattern *.log
LogNames == { "logs/old.log" }

\* dir_path.glob('*.log') for dir_path = logs
glob_log(f) == { p \in Children("logs") : Exists(f, p) /\ p \in LogNames }

RECURSIVE unlink_all(_, _)
unlink_all(f, ps) ==
    IF ps = {} THEN Ok(f)
    ELSE LET p == CHOOSE q \in ps : TRUE
             r == unlink(f, p)
         IN IF r.exc # "none" THEN r ELSE unlink_all(r.fs, ps \ {p})

\* the body of "for dir_path in temp_dirs"
clean_dir(f, d) ==
    IF ~Exists(f, d) THEN Ok(f)
    ELSE IF d = "logs" THEN unlink_all(f, IF IsDir(f, d) THEN glob_log(f) ELSE {})
    ELSE rmtree(f, d)

\* the body of "for file_path in temp_files"
clean_file(f, p) == IF Exists(f, p) THEN unlink(f, p) ELSE Ok(f)

RECURSIVE clean_dirs(_, _)
clean_dirs(f, i) ==
    IF i > Len(temp_dirs) THEN Ok(f)
    ELSE LET r == clean_dir(f, temp_dirs[i])
         IN IF r.exc # "none" THEN r ELSE clean_dirs(r.fs, i + 1)

RECURSIVE clean_files(_, _)
clean_files(f, i) ==
    IF i > Len(temp_files) THEN Ok(f)
    ELSE LET r == clean_file(f, temp_files[i])
         IN IF r.exc # "none" THEN r ELSE clean_files(r.fs, i + 1)

cleanup(f) ==
    LET d == clean_dirs(f, 1)
    IN IF d.exc # "none" THEN d ELSE clean_files(d.fs, 1)

\* what "python cleanup.py" does for the text found in cleanup.py: the
\* generated script runs cleanup(), an empty script does nothing
RunnableTexts == { EmptyText } \cup { cleanup_py(d, n) : d \in { "dir_path.name", "{dir_path.name}" },
                                                         n \in { "file_path.name", "{file_path.name}" } }

run_cleanup_script(f) ==
    IF f["cleanup.py"].text = EmptyText THEN Ok(f) ELSE cleanup(f)

-----------------------------------------------------------------------------
(* The run.  main() constructs ProjectSetup and calls the stages in order; *)
(* an exception that leaves a stage ends the run with exit status 1 and    *)
(* sys.exit(1) ends it with exit status 1.                                 *)

Versions == { <<2, 7, 18>>, <<3, 6, 15>>, <<3, 7, 0>>, <<4, 0, 0>> }

Cwds == { "base", "elsewhere" }

NoPip == [ran |-> FALSE, dir |-> "none", path |-> "none", entry |-> Absent, result |-> "none"]

Unset == 0 - 1

InitRun ==
    /\ fs0 = fs
    /\ exitCode = Unset
    /\ out = <<>>
    /\ started = <<>>
    /\ finished = <<>>
    /\ exc = "none"
    /\ pip = NoPip
    /\ edits = 0
    /\ calls = 0
    /\ last = "init"
    /\ pre = fs

Init ==
    /\ fs \in SeedStates(MaxSeed)
    /\ version \in Versions
    /\ pc = "banner"
    /\ cwd \in Cwds
    /\ cwdReq = Absent
    /\ InitRun

InitCwd ==
    /\ cwd \in Cwds
    /\ cwdReq \in IF cwd = "base" THEN { Absent } ELSE { Absent, File(UserText) }

\* the caller's part of a stage call: record the stage, take its effects,
\* go on to the next stage or end the run on an exception
Call(stage, r, next) ==
    /\ fs' = r.fs
    /\ out' = out \o r.out \o (IF r.exc # "none" THEN << <<"Error:", r.exc>> >> ELSE <<>>)
    /\ started' = Append(started, stage)
    /\ finished' = IF r.exc = "none" THEN Append(finished, stage) ELSE finished
    /\ exc' = r.exc
    /\ pc' = IF r.exc = "none" THEN next ELSE "done"
    /\ exitCode' = IF r.exc # "none" THEN 1 ELSE IF next = "done" THEN 0 ELSE exitCode
    /\ last' = "stage"
    /\ pre' = fs

PrintBanner ==
    /\ pc = "banner"
    /\ Call("print_banner", Result(fs, print_banner, "none"), "version")
    /\ UNCHANGED <<fs0, version, cwd, cwdReq, pip, edits, calls>>

CheckPythonVersion ==
    /\ pc = "version"
    /\ LET r == check_python_version(version)
       IN /\ out' = out \o r.out
          /\ started' = Append(started, "check_python_version")
          /\ finished' = IF r.exit THEN finished ELSE Append(finished, "check_python_version")
          /\ pc' = IF r.exit THEN "done" ELSE "structure"
          /\ exitCode' = IF r.exit THEN 1 ELSE exitCode
    /\ last' = "stage"
    /\ pre' = fs
    /\ UNCHANGED <<fs, fs0, version, exc, cwd, cwdReq, pip, edits, calls>>

CreateProjectStructure ==
    /\ pc = "structure"
    /\ Call("create_project_structure", create_project_structure(fs), "config")
    /\ UNCHANGED <<fs0, version, cwd, cwdReq, pip, edits, calls>>

CreateConfigFiles ==
    /\ pc = "config"
    /\ Call("create_config_files", create_config_files(fs), "install")
    /\ UNCHANGED <<fs0, version, cwd, cwdReq, pip, edits, calls>>

\* the entry the installer subprocess finds at ManifestArg: the subprocess
\* resolves the relative path against its working directory
ManifestEntry(f) == IF cwd = "base" THEN f[ManifestArg] ELSE cwdReq

InstallDependencies ==
    /\ pc = "install"
    /\ \E result \in PipResults :
         LET r == install_dependencies(fs, result)
         IN /\ (result = "ok" => ManifestEntry(r.fs).kind = "file")
            /\ Call("install_dependencies", r, "main_files")
            /\ pip' = IF r.exc \in { "none", "OSError" }
                      THEN [ran |-> TRUE, dir |-> cwd, path |-> ManifestArg,
                            entry |-> ManifestEntry(r.fs), result |-> result]
                      ELSE pip
    /\ UNCHANGED <<fs0, version, cwd, cwdReq, edits, calls>>

CreateMainFiles ==
    /\ pc = "main_files"
    /\ Call("create_main_files", create_main_files(fs), "documentation")
    /\ UNCHANGED <<fs0, version, cwd, cwdReq, pip, edits, calls>>

CreateDocumentation ==
    /\ pc = "documentation"
    /\ Call("create_documentation", create_documentation(fs), "done")
    /\ UNCHANGED <<fs0, version, cwd, cwdReq, pip, edits, calls>>

\* The stages of a run, as far as a run gets: create_config_files raises in
\* every run, so the later stages are not steps of Spec.
Next == PrintBanner \/ CheckPythonVersion \/ CreateProjectStructure \/ CreateConfigFiles

Spec == Init /\ [][Next]_vars

-----------------------------------------------------------------------------
(* The later stages, called in the order of the run by a client that       *)
(* enters the sequence at install_dependencies or after it, in a tree the  *)
(* scaffolding stage has been executed in; once create_main_files has been *)
(* executed and the run is over, the developer runs cleanup.py.            *)

Scaffolded == { create_project_structure(f).fs :
                  f \in { g \in SeedStates(MaxSeed) : create_project_structure(g).exc = "none" } }

InitStages ==
    /\ fs \in Scaffolded
    /\ version \in { v \in Versions : ~LexLess(v, MinVersion) }
    /\ pc \in { "install", "main_files", "documentation" }
    /\ InitCwd
    /\ InitRun

RunCleanupScript ==
    /\ pc = "done"
    /\ "create_main_files" \in Range(started)
    /\ last # "cleanup"
    /\ IsFile(fs, "cleanup.py")
    /\ fs["cleanup.py"].text \in RunnableTexts
    /\ fs' = run_cleanup_script(fs).fs
    /\ last' = "cleanup"
    /\ pre' = fs
    /\ UNCHANGED <<fs0, version, pc, exitCode, out, started, finished, exc, cwd, cwdReq, pip, edits, calls>>

NextStages == InstallDependencies \/ CreateMainFiles \/ CreateDocumentation \/ RunCleanupScript

StagesSpec == InitStages /\ [][NextStages]_vars

-----------------------------------------------------------------------------
(* The scaffolding stage executed repeatedly by a client, the developer    *)
(* writing files in between.                                               *)

InitScaffold ==
    /\ fs = EmptyTree
    /\ version \in { v \in Versions : ~LexLess(v, MinVersion) }
    /\ pc = "client"
    /\ cwd = "base"
    /\ cwdReq = Absent
    /\ InitRun

Scaffold ==
    /\ pc = "client"
    /\ calls < MaxCalls
    /\ LET r == create_project_structure(fs)
       IN /\ fs' = r.fs
          /\ out' = out \o r.out
          /\ exc' = r.exc
    /\ calls' = calls + 1
    /\ last' = "stage"
    /\ pre' = fs
    /\ UNCHANGED <<fs0, version, pc, exitCode, started, finished, cwd, cwdReq, pip, edits>>

\* the developer writes a file: between executions of the scaffolding stage,
\* or before the installer is started
UserWrite ==
    /\ pc \in { "client", "banner" }
    /\ edits < MaxEdits
    /\ \E p \in Paths, t \in { UserText, UserText2 } :
         LET r == write_text(fs, p, t)
         IN /\ r.exc = "none"
            /\ fs' = r.fs
            /\ fs0' = IF pc = "banner" THEN r.fs ELSE fs0
    /\ edits' = edits + 1
    /\ last' = "user"
    /\ pre' = fs
    /\ UNCHANGED <<version, pc, exitCode, out, started, finished, exc, cwd, cwdReq, pip, calls>>

NextScaffold == Scaffold \/ UserWrite

ScaffoldSpec == InitScaffold /\ [][NextScaffold]_vars


-----------------------------------------------------------------------------
(* The installer run again in the tree an earlier run left, the developer  *)
(* writing files before a run starts.                                      *)

InitRerun ==
    /\ fs = EmptyTree
    /\ version \in Versions
    /\ pc = "banner"
    /\ cwd = "base"
    /\ cwdReq = Absent
    /\ InitRun

\* python Setup.py once more: a new process, the tree as the last run left it
Restart ==
    /\ pc = "done"
    /\ calls + 1 < MaxCalls
    /\ pc' = "banner"
    /\ fs0' = fs
    /\ exitCode' = Unset
    /\ out' = <<>>
    /\ started' = <<>>
    /\ finished' = <<>>
    /\ exc' = "none"
    /\ calls' = calls + 1
    /\ last' = "init"
    /\ pre' = fs
    /\ UNCHANGED <<fs, version, cwd, cwdReq, pip, edits>>

NextRerun ==
    \/ PrintBanner
    \/ CheckPythonVersion
    \/ CreateProjectStructure
    \/ CreateConfigFiles
    \/ Restart
    \/ UserWrite

RerunSpec == InitRerun /\ [][NextRerun]_vars

-----------------------------------------------------------------------------
(* Properties *)

\* the host runtime version is below 3.7
Below37(v) == v[1] < 3 \/ (v[1] = 3 /\ v[2] < 7)

Passed == pc = "done" /\ ~Below37(version)

AllStages == << "print_banner", "check_python_version", "create_project_structure",
                "create_config_files", "install_dependencies", "create_main_files",
                "create_documentation" >>

\* the cleanup script as its template reads: the two fields stay in the
\* script's own print calls
cleanup_template == cleanup_py("{dir_path.name}", "{file_path.name}")

\* the files the installer writes with write_text
Generated == { ".gitignore", "config/settings.json", "config/api_config.json", ".env.example",
               "requirements.txt", "run.py", "cleanup.py", "README.md" }

\* C1: when the host runtime version is below 3.7 the run never goes beyond
\* the version check, ends with exit status 1, and the tree under the base
\* directory is at every moment the tree the process was started in.
C1_LowVersionExitsUntouched ==
    Below37(version) =>
        /\ fs = fs0
        /\ pc \in { "banner", "version", "done" }
        /\ (pc = "done" => exitCode = 1 /\ started = << "print_banner", "check_python_version" >>)

C1_Witness ==
    /\ Below37(version)
    /\ pc = "done"
    /\ exitCode = 1
    /\ \E p \in Paths : Exists(fs0, p)

\* every Directory Plan path is a directory and every File Plan path a file
PlanExists(f) == (\A d \in DirPlan : IsDir(f, d)) /\ (\A p \in FilePlan : IsFile(f, p))

\* every directory of the plan that existed before the run holds the entries it held
PriorContentsKept ==
    \A d \in DirPlan : IsDir(fs0, d) =>
        \A p \in Descendants(d) : Exists(fs0, p) => fs[p] = fs0[p]

\* no path of a plan is taken by an entry of the other kind
NoKindConflict(f) == (\A d \in DirPlan : ~IsFile(f, d)) /\ (\A p \in FilePlan : ~IsDir(f, p))

\* C2 as stated: for every initial tree, a run that passes the version check
\* ends with the 17 directories and the 16 files existing and the directories
\* that existed before holding their prior contents.
C2_Original == Passed => PlanExists(fs) /\ PriorContentsKept

\* C2 amended: the same, for the initial trees in which no Directory Plan path
\* is a file and no File Plan path is a directory.
C2_PlanCreated == (Passed /\ NoKindConflict(fs0)) => PlanExists(fs) /\ PriorContentsKept

C2_Witness ==
    /\ Passed
    /\ NoKindConflict(fs0)
    /\ PlanExists(fs)
    /\ \E d \in DirPlan : IsDir(fs0, d) /\ \E p \in Children(d) : fs0[p] = File(UserText) /\ fs[p] = fs0[p]

\* C3: after a run that passes the version check, .gitignore, settings.json,
\* api_config.json, .env.example, run.py, cleanup.py and README.md each hold
\* exactly their template, whatever they held before.
C3_TemplatesWritten ==
    Passed =>
        /\ fs[".gitignore"] = File(gitignore_content)
        /\ fs["config/settings.json"] = File(settings_json(project_version, author))
        /\ fs["config/api_config.json"] = File(api_config_json)
        /\ fs[".env.example"] = File(env_example)
        /\ fs["run.py"] = File(run_py(project_version))
        /\ fs["cleanup.py"] = File(cleanup_template)
        /\ fs["README.md"] = File(readme_content(project_version))

\* C4: an execution of the scaffolding stage leaves every File Plan path at
\* which a file exists with the content it had, and changes a File Plan path
\* only by creating an empty file where nothing existed; when the stage
\* returns, every File Plan path that was absent is an empty file.
C4_ScaffoldKeepsFiles ==
    last = "stage" =>
        \A p \in FilePlan :
            /\ IsFile(pre, p) => fs[p] = pre[p]
            /\ fs[p] # pre[p] => ~Exists(pre, p) /\ fs[p] = File(EmptyText)
            /\ (exc = "none" /\ ~Exists(pre, p)) => fs[p] = File(EmptyText)

\* the stage created CHANGELOG.md empty, the developer wrote into it, and the
\* stage was executed again
C4_Witness ==
    /\ last = "stage"
    /\ calls = 2
    /\ exc = "none"
    /\ \E i \in 1..Len(out) : out[i] = << "Created file:", "CHANGELOG.md" >>
    /\ pre["CHANGELOG.md"] = File(UserText)
    /\ fs["CHANGELOG.md"] = File(UserText)

\* C5: when the installer subprocess exits non-zero the run does not abort:
\* create_main_files and create_documentation execute, and the run ends with
\* run.py, cleanup.py and README.md holding their generated templates.
C5_RunContinuesAfterPipFailure ==
    (pc = "done" /\ pip.ran /\ pip.result = "nonzero") =>
        /\ \E i \in 1..Len(finished) : finished[i] = "create_main_files"
        /\ \E i \in 1..Len(finished) : finished[i] = "create_documentation"
        /\ fs["run.py"] = File(run_py(project_version))
        /\ fs["cleanup.py"] = File(cleanup_template)
        /\ fs["README.md"] = File(readme_content(project_version))

\* C6: running the cleanup script the installer left removes __pycache__ and
\* tmp with everything in them, the files of logs that match *.log, .DS_Store
\* and thumbs.db, and leaves every other entry as it was.
C6_CleanupRemoves ==
    last = "cleanup" =>
        \A p \in Paths :
            IF \/ p \in { "__pycache__", "tmp", ".DS_Store", "thumbs.db" }
               \/ "__pycache__" \in Ancestors(p)
               \/ "tmp" \in Ancestors(p)
               \/ (p \in LogNames /\ IsFile(pre, p))
            THEN ~Exists(fs, p)
            ELSE fs[p] = pre[p]

\* C7: in a run that passes the version check the seven stages each execute
\* exactly once, in order, each returning before the next starts.
C7_AllStagesOnceInOrder == Passed => started = AllStages /\ finished = AllStages

\* C8 as stated: a file that exists with non-empty content before a run has
\* the same content after the run.
C8_Original ==
    pc = "done" =>
        \A p \in Paths : (IsFile(fs0, p) /\ fs0[p].text # EmptyText) => fs[p] = fs0[p]

\* C8 amended: the same for every file other than the files the installer
\* generates (.gitignore, settings.json, api_config.json, .env.example,
\* requirements.txt, run.py, cleanup.py, README.md).
C8_PlaceholdersKept ==
    pc = "done" =>
        \A p \in Paths \ Generated : (IsFile(fs0, p) /\ fs0[p].text # EmptyText) => fs[p] = fs0[p]

C8_Witness ==
    /\ Passed
    /\ calls = 1
    /\ "create_project_structure" \in Range(finished)
    /\ fs0["CHANGELOG.md"] = File(UserText)
    /\ fs["CHANGELOG.md"] = File(UserText)

\* C9: whether the installer subprocess exits non-zero or cannot be invoked,
\* install_dependencies prints the failure and the manual-install hint and
\* returns normally, and the next stage is executed.
C9_PipFailureNeverEscapes ==
    (pip.ran /\ pip.result # "ok") =>
        /\ "install_dependencies" \in Range(finished)
        /\ \E i \in 1..Len(out) : out[i][1] = "Failed to install dependencies:"
        /\ \E i \in 1..Len(out) : out[i] = << "Please install manually: pip install -r requirements.txt" >>
        /\ (pc = "done" => "create_main_files" \in Range(started))

\* C10: whatever the working directory, the manifest the installer
\* subprocess reads is requirements.txt of the base directory, which
\* install_dependencies has just written with the eight specifiers in order.
C10_PipReadsWrittenManifest ==
    pip.ran =>
        /\ pip.dir = "base"
        /\ pip.entry = fs["requirements.txt"]
        /\ pip.entry.kind = "file"
        /\ Lines(pip.entry.text) = requirements

====
